---- MODULE Spec2Model ----
(***************************************************************************)
(* Model of the CPR module of S.T.A.R.T-Rescue (src/cpr.js): the           *)
(* compression metronome, the session timer, the session log, the event    *)
(* log and the timeline, together with the form-field helper getValue of   *)
(* src/utils.js that the event handlers read their input through.          *)
(*                                                                         *)
(* Text is modelled as a sequence of one-character strings, so that        *)
(* trimming and numeric conversion are computed and not assumed.           *)
(* Timestamps (time, iso, duration) are left out of the log entries: no    *)
(* handler reads them back.                                                *)
(*                                                                         *)
(* The patient list (src/patient.js) and the GCS log (src/gcs.js) are      *)
(* modelled next to it: the patients object with its key order, the        *)
(* current patient, and the GCS log that is copied into patient records.   *)
(***************************************************************************)
EXTENDS Integers, Sequences, FiniteSets, TLC

VARIABLES cprLog, cprEvents, cprTimeline, currentRhythm,
          metronomeInterval, metronomeRate, compressionCount, cycleCount,
          cprStartTime, cprTimerInterval,
          timers, cprTimers, localStorage, cycleLabel,
          lastOp,
          patients, currentPatientId, gcsLog, dateNow, patientStore

cprVars == <<cprLog, cprEvents, cprTimeline, currentRhythm,
             metronomeInterval, metronomeRate, compressionCount, cycleCount,
             cprStartTime, cprTimerInterval,
             timers, cprTimers, localStorage, cycleLabel>>

patientVars == <<patients, currentPatientId, gcsLog, dateNow, patientStore>>

vars == <<cprLog, cprEvents, cprTimeline, currentRhythm,
          metronomeInterval, metronomeRate, compressionCount, cycleCount,
          cprStartTime, cprTimerInterval,
          timers, cprTimers, localStorage, cycleLabel,
          lastOp,
          patients, currentPatientId, gcsLog, dateNow, patientStore>>

----------------------------------------------------------------------------
(* Bounds of the model *)

\* number of interval-timer handles the host can hand out at once
MaxTimers == 2
\* compression ticks are explored up to this count
MaxCount == 121
\* pulse checks answered "no" per session
MaxCycles == 1
\* entries in cprTimeline, cprEvents, cprLog explored by the controller runs
MaxTimeline == 4
MaxEvents == 1
MaxSessions == 1
\* with every handler in play, ticks are explored this close to 0 and to the
\* cycle target
TickWindow == 1

(* Program constants *)
cycleTarget == 120
InitialRate == 100
LogCap == 200

NULL == 0
Started == 1
Handles == 1..MaxTimers

----------------------------------------------------------------------------
(* Text helpers: src/utils.js getValue trims string values; JavaScript     *)
(* converts a string to a number when it is compared with a number.        *)

IsSpace(c) == c = " "

RECURSIVE TrimLeft(_)
TrimLeft(s) == IF s # <<>> /\ IsSpace(Head(s)) THEN TrimLeft(Tail(s)) ELSE s

RECURSIVE TrimRight(_)
TrimRight(s) ==
    IF s # <<>> /\ IsSpace(s[Len(s)]) THEN TrimRight(SubSeq(s, 1, Len(s) - 1)) ELSE s

trim(s) == TrimRight(TrimLeft(s))

Digits == <<"0", "1", "2", "3", "4", "5", "6", "7", "8", "9">>
IsDigit(c) == \E i \in 1..10 : Digits[i] = c
DigitVal(c) == (CHOOSE i \in 1..10 : Digits[i] = c) - 1

RECURSIVE DigitsVal(_, _)
DigitsVal(s, acc) ==
    IF s = <<>> THEN acc ELSE DigitsVal(Tail(s), acc * 10 + DigitVal(Head(s)))

AllDigits(s) == s # <<>> /\ \A i \in 1..Len(s) : IsDigit(s[i])

\* ToNumber of a string: [nan |-> TRUE] or [nan |-> FALSE, val |-> n]
ToNumber(str) ==
    LET s == trim(str) IN
    IF s = <<>> THEN [nan |-> FALSE, val |-> 0]
    ELSE IF s[1] = "-" /\ AllDigits(Tail(s))
         THEN [nan |-> FALSE, val |-> 0 - DigitsVal(Tail(s), 0)]
    ELSE IF AllDigits(s) THEN [nan |-> FALSE, val |-> DigitsVal(s, 0)]
    ELSE [nan |-> TRUE, val |-> 0]

\* parseInt of a slider value: the leading digits
RECURSIVE LeadingDigits(_)
LeadingDigits(s) ==
    IF s # <<>> /\ IsDigit(Head(s)) THEN <<Head(s)>> \o LeadingDigits(Tail(s)) ELSE <<>>

parseInt(str) == DigitsVal(LeadingDigits(TrimLeft(str)), 0)

\* a form field: absent from the page, or present with a value
getValue(field, defaultValue) ==
    IF ~field.present THEN defaultValue ELSE trim(field.value)

----------------------------------------------------------------------------
(* The module state as one value, so that a handler's calls can be        *)
(* composed in the order the code makes them.                             *)

Cur == [cprLog |-> cprLog, cprEvents |-> cprEvents, cprTimeline |-> cprTimeline,
        currentRhythm |-> currentRhythm,
        metronomeInterval |-> metronomeInterval, metronomeRate |-> metronomeRate,
        compressionCount |-> compressionCount, cycleCount |-> cycleCount,
        cprStartTime |-> cprStartTime, cprTimerInterval |-> cprTimerInterval,
        timers |-> timers, cprTimers |-> cprTimers,
        localStorage |-> localStorage, cycleLabel |-> cycleLabel]

Commit(s) ==
    /\ cprLog' = s.cprLog
    /\ cprEvents' = s.cprEvents
    /\ cprTimeline' = s.cprTimeline
    /\ currentRhythm' = s.currentRhythm
    /\ metronomeInterval' = s.metronomeInterval
    /\ metronomeRate' = s.metronomeRate
    /\ compressionCount' = s.compressionCount
    /\ cycleCount' = s.cycleCount
    /\ cprStartTime' = s.cprStartTime
    /\ cprTimerInterval' = s.cprTimerInterval
    /\ timers' = s.timers
    /\ cprTimers' = s.cprTimers
    /\ localStorage' = s.localStorage
    /\ cycleLabel' = s.cycleLabel
    /\ UNCHANGED patientVars

\* what a handler leaves behind for the properties to refer to
Did(op, ok) == lastOp' = [op |-> op, ok |-> ok]

(* Host timers: setInterval hands out a handle that is not live,         *)
(* clearInterval retires it.  The live handles map to their period (ms). *)
FreeHandle(live) == CHOOSE h \in Handles \ live : \A g \in Handles \ live : h <= g
HasFreeHandle(live) == Handles \ live # {}
clearInterval(live, h) == [g \in DOMAIN live \ {h} |-> live[g]]

(* localStorage keeps JSON text per key *)
JSONstringify(v) == <<"json", v>>
JSONparse(t) == t[2]
Missing == <<"missing">>

\* a save that leaves the cprTimeline key as it was
saveWithoutTimeline(s) ==
    [s EXCEPT !.localStorage = [cprLog |-> JSONstringify(s.cprLog),
                                cprEvents |-> JSONstringify(s.cprEvents),
                                cprTimeline |-> s.localStorage.cprTimeline]]

saveToLocalStorage(s) ==
    [s EXCEPT !.localStorage = [cprLog |-> JSONstringify(s.cprLog),
                                cprEvents |-> JSONstringify(s.cprEvents),
                                cprTimeline |-> JSONstringify(s.cprTimeline)]]

\* push in place of unshift: the new entry goes to the tail
push(log, item) == log \o <<item>>

unshift(log, item) == <<item>> \o log

Entry(type, details) == [type |-> type, details |-> details]

Ceil(a, b) == (a + b - 1) \div b

\* startCPRTimer that starts the interval without keeping its handle
startCPRTimerDropsHandle(s) ==
    LET h == FreeHandle(s.cprTimers) IN
    [s EXCEPT !.cprTimers = @ \cup {h}]

startCPRTimer(s) ==
    LET h == FreeHandle(s.cprTimers) IN
    [s EXCEPT !.cprTimers = @ \cup {h}, !.cprTimerInterval = h]

\* startMetronome that leaves the new session-start entry unsaved
startMetronomeNoSave(s) ==
    LET s1 == IF s.cprStartTime = NULL
              THEN [startCPRTimer([s EXCEPT !.cprStartTime = Started])
                      EXCEPT !.cprTimeline =
                         unshift(@, Entry("session-start", <<"CPR started">>))]
              ELSE s
        interval == 60000 \div s1.metronomeRate
        h == FreeHandle(DOMAIN s1.timers)
    IN [s1 EXCEPT !.timers = (h :> interval) @@ @, !.metronomeInterval = h]

startMetronome(s) ==
    LET s1 == IF s.cprStartTime = NULL
              THEN saveToLocalStorage(
                     [startCPRTimer([s EXCEPT !.cprStartTime = Started])
                        EXCEPT !.cprTimeline =
                           unshift(@, Entry("session-start", <<"CPR started">>))])
              ELSE s
        interval == 60000 \div s1.metronomeRate
        h == FreeHandle(DOMAIN s1.timers)
    IN [s1 EXCEPT !.timers = (h :> interval) @@ @, !.metronomeInterval = h]

stopMetronome(s) ==
    IF s.metronomeInterval # NULL
    THEN [s EXCEPT !.timers = clearInterval(@, s.metronomeInterval),
                   !.metronomeInterval = NULL]
    ELSE s

\* updateCompressionCount that shows the bare modulus
updateCompressionCountBareModulus(s) ==
    LET s1 == [s EXCEPT !.compressionCount = @ + 1]
        s2 == IF s1.compressionCount >= cycleTarget THEN stopMetronome(s1) ELSE s1
        currentCycle == Ceil(s2.compressionCount, cycleTarget)
        cycleProgress == s2.compressionCount % cycleTarget
    IN [s2 EXCEPT !.cycleLabel = <<currentCycle, cycleProgress>>]

updateCompressionCount(s) ==
    LET s1 == [s EXCEPT !.compressionCount = @ + 1]
        s2 == IF s1.compressionCount >= cycleTarget THEN stopMetronome(s1) ELSE s1
        currentCycle == Ceil(s2.compressionCount, cycleTarget)
        m == s2.compressionCount % cycleTarget
        cycleProgress == IF m # 0 THEN m ELSE cycleTarget
    IN [s2 EXCEPT !.cycleLabel = <<currentCycle, cycleProgress>>]

\* resetMetronome that forgets to clear cycleCount
resetMetronomeKeepsCycleCount(s) ==
    LET s1 == [stopMetronome(s) EXCEPT !.compressionCount = 0,
                                       !.cprStartTime = NULL]
        s2 == IF s1.cprTimerInterval # NULL
              THEN [s1 EXCEPT !.cprTimers = @ \ {s1.cprTimerInterval},
                              !.cprTimerInterval = NULL]
              ELSE s1
    IN [s2 EXCEPT !.cycleLabel = <<0, 0>>]

resetMetronome(s) ==
    LET s1 == [stopMetronome(s) EXCEPT !.compressionCount = 0,
                                       !.cycleCount = 0,
                                       !.cprStartTime = NULL]
        s2 == IF s1.cprTimerInterval # NULL
              THEN [s1 EXCEPT !.cprTimers = @ \ {s1.cprTimerInterval},
                              !.cprTimerInterval = NULL]
              ELSE s1
    IN [s2 EXCEPT !.cycleLabel = <<0, 0>>]

\* pulseDetected that records the session end before the pulse check
pulseDetectedEndFirst(s) ==
    LET s1 == IF s.cprStartTime # NULL
              THEN [s EXCEPT
                      !.cprLog = unshift(@, [rate |-> s.metronomeRate,
                                             cycles |-> Ceil(s.compressionCount, cycleTarget),
                                             rhythm |-> s.currentRhythm]),
                      !.cprTimeline =
                          unshift(@, Entry("session-end", <<"CPR stopped - Pulse detected">>))]
              ELSE s
        s2 == [s1 EXCEPT !.cprTimeline =
                 unshift(@, Entry("pulse-check", <<"Pulse detected - CPR stopped">>))]
    IN saveToLocalStorage(resetMetronome(s2))

pulseDetected(s) ==
    LET s1 == [s EXCEPT !.cprTimeline =
                 unshift(@, Entry("pulse-check", <<"Pulse detected - CPR stopped">>))]
        s2 == IF s1.cprStartTime # NULL
              THEN [s1 EXCEPT
                      !.cprLog = unshift(@, [rate |-> s1.metronomeRate,
                                             cycles |-> Ceil(s1.compressionCount, cycleTarget),
                                             rhythm |-> s1.currentRhythm]),
                      !.cprTimeline =
                          unshift(@, Entry("session-end", <<"CPR stopped - Pulse detected">>))]
              ELSE s1
    IN saveToLocalStorage(resetMetronome(s2))

\* noPulseDetected that records a session-start for the next cycle
noPulseDetectedLogsStart(s) ==
    LET s1 == [s EXCEPT !.cprTimeline =
                 unshift(unshift(@, Entry("pulse-check", <<"No pulse detected - CPR continued">>)),
                         Entry("session-start", <<"CPR started">>))]
        s2 == [s1 EXCEPT !.compressionCount = 0, !.cycleCount = @ + 1]
        s3 == [s2 EXCEPT !.cycleLabel = <<s2.cycleCount, 0>>]
    IN saveToLocalStorage(startMetronome(s3))

noPulseDetected(s) ==
    LET s1 == [s EXCEPT !.cprTimeline =
                 unshift(@, Entry("pulse-check", <<"No pulse detected - CPR continued">>))]
        s2 == [s1 EXCEPT !.compressionCount = 0, !.cycleCount = @ + 1]
        s3 == [s2 EXCEPT !.cycleLabel = <<s2.cycleCount, 0>>]
    IN saveToLocalStorage(startMetronome(s3))

updateMetronomeRate(s, value) ==
    LET s1 == [s EXCEPT !.metronomeRate = parseInt(value)]
    IN IF s1.metronomeInterval # NULL THEN startMetronome(stopMetronome(s1)) ELSE s1

\* toggleMetronome that resumes from a count of zero
toggleMetronomeRecounts(s) ==
    IF s.metronomeInterval # NULL THEN stopMetronome(s)
    ELSE startMetronome([s EXCEPT !.compressionCount = 0])

toggleMetronome(s) ==
    IF s.metronomeInterval # NULL THEN stopMetronome(s) ELSE startMetronome(s)

\* compatibility wrappers the page calls
startCPR(s) == startMetronome(s)

\* stopCPR that ends the session the way pulseDetected does
stopCPREndsSession(s) ==
    IF s.cprStartTime # NULL
    THEN saveToLocalStorage(resetMetronome(
           [s EXCEPT !.cprLog = unshift(@, [rate |-> s.metronomeRate,
                                            cycles |-> Ceil(s.compressionCount, cycleTarget),
                                            rhythm |-> s.currentRhythm]),
                     !.cprTimeline =
                         unshift(@, Entry("session-end", <<"CPR stopped">>))]))
    ELSE stopMetronome(s)

stopCPR(s) == stopMetronome(s)

----------------------------------------------------------------------------
(* Event handlers.  Each returns the new state, or the state it was given *)
(* when the input is rejected.                                            *)

UNKNOWN == <<"unknown">>

getRhythmName(value) ==
    IF value = <<"unknown">> THEN <<"Unknown">>
    ELSE IF value = <<"vf">> THEN <<"VF (Ventricular Fibrillation)">>
    ELSE IF value = <<"vt">> THEN <<"VT (Ventricular Tachycardia)">>
    ELSE IF value = <<"asystole">> THEN <<"Asystole">>
    ELSE IF value = <<"pea">> THEN <<"PEA (Pulseless Electrical Activity)">>
    ELSE value

\* logging that files the timeline copy under one common type
logBothAsNote(s, type, eventDetails, timelineDetails) ==
    saveToLocalStorage(
      [s EXCEPT !.cprEvents = unshift(@, Entry(type, eventDetails)),
                !.cprTimeline = unshift(@, Entry("note", timelineDetails))])

\* both logs get an entry of the same type, then everything is saved
logBoth(s, type, eventDetails, timelineDetails) ==
    saveToLocalStorage(
      [s EXCEPT !.cprEvents = unshift(@, Entry(type, eventDetails)),
                !.cprTimeline = unshift(@, Entry(type, timelineDetails))])

\* logRhythmChange that keeps the first rhythm it was given
logRhythmChangeKeepsFirst(s, sel) ==
    LET rhythm == IF sel.present THEN sel.value ELSE <<>> IN
    IF rhythm = <<>> THEN s
    ELSE logBoth([s EXCEPT !.currentRhythm = IF @ = UNKNOWN THEN rhythm ELSE @],
                 "rhythm", rhythm, <<"Rhythm: ">> \o getRhythmName(rhythm))

\* sel is the rhythm-select element; its value is read untrimmed
logRhythmChange(s, sel) ==
    LET rhythm == IF sel.present THEN sel.value ELSE <<>> IN
    IF rhythm = <<>> THEN s
    ELSE logBoth([s EXCEPT !.currentRhythm = rhythm], "rhythm",
                 rhythm, <<"Rhythm: ">> \o getRhythmName(rhythm))

\* a check that only tests !energy
shockRejectedOnlyEmpty(energy) == energy = <<>>

\* !energy || energy <= 0, with energy a string
shockRejected(energy) ==
    \/ energy = <<>>
    \/ (~ToNumber(energy).nan /\ ToNumber(energy).val <= 0)

logShock(s, field) ==
    LET energy == getValue(field, <<>>) IN
    IF shockRejected(energy) THEN s
    ELSE logBoth(s, "shock", energy \o <<"J">>,
                 <<"Shock delivered: ">> \o energy \o <<"J">>)

\* logMedication without the check of the other-medication field
logMedicationAnyOther(s, f) ==
    LET medication == getValue(f.select, <<>>)
        otherMed == getValue(f.other, <<>>)
        details == IF medication = <<"other">> THEN otherMed ELSE medication
    IN IF medication = <<>> THEN s
       ELSE logBoth(s, "medication", details, <<"Medication: ">> \o details)

logMedication(s, f) ==
    LET medication == getValue(f.select, <<>>)
        otherMed == getValue(f.other, <<>>)
        details == IF medication = <<"other">> THEN otherMed
                   ELSE IF medication = <<"epinephrine">>
                        THEN <<"Epinephrine ">> \o getValue(f.dose, <<>>) \o <<"mg every ">>
                             \o getValue(f.interval, <<>>) \o <<" min">>
                   ELSE medication
    IN IF medication = <<>> THEN s
       ELSE IF medication = <<"other">> /\ otherMed = <<>> THEN s
       ELSE logBoth(s, "medication", details, <<"Medication: ">> \o details)

logIntervention(s, f) ==
    LET intervention == getValue(f.select, <<>>)
        otherInt == getValue(f.other, <<>>)
        notes == getValue(f.notes, <<>>)
        base == IF intervention = <<"other-int">> THEN otherInt ELSE intervention
        details == IF notes # <<>> THEN base \o <<" - ">> \o notes ELSE base
    IN IF intervention = <<>> THEN s
       ELSE IF intervention = <<"other-int">> /\ otherInt = <<>> THEN s
       ELSE logBoth(s, "intervention", details, <<"Intervention: ">> \o details)

\* details is what prompt() returned: <<>> for Cancel or an empty answer
addCprEvent(s, details) ==
    IF details = <<>> THEN s
    ELSE logBoth(s, "note", details, details)

----------------------------------------------------------------------------
(* Inputs the handlers are driven with *)

Field(v) == [present |-> TRUE, value |-> v]
Absent == [present |-> FALSE, value |-> <<>>]

RateValues == {<<"1", "0", "0">>, <<"1", "2", "0">>}
RhythmSelects == {Absent, Field(<<>>), Field(<<"vf">>), Field(<<"asystole">>)}
ShockFields == {Field(<<>>), Field(<<" ">>), Field(<<"0">>), Field(<<"-", "5">>),
                Field(<<"2", "0", "0">>), Field(<<"a", "b", "c">>)}
MedForms == {[select |-> Field(f[1]), other |-> Field(f[2]),
              dose |-> Field(<<"1">>), interval |-> Field(<<"3">>)] :
                f \in {<<<<>>, <<>>>>,
                       <<<<"other">>, <<" ">>>>,
                       <<<<"other">>, <<"lidocaine">>>>,
                       <<<<"epinephrine">>, <<>>>>}}
IntForms == {[select |-> Field(f[1]), other |-> Field(f[2]), notes |-> Field(f[3])] :
                f \in {<<<<>>, <<>>, <<>>>>,
                       <<<<"other-int">>, <<>>, <<"ok">>>>,
                       <<<<"other-int">>, <<"cooling">>, <<>>>>,
                       <<<<"intubation">>, <<>>, <<"ok">>>>}}
PromptAnswers == {<<>>, <<"rosc">>}
\* the audio-enabled checkbox and whether the host has an AudioContext
AudioEnvs == {[enabled |-> e, capable |-> c] : e \in BOOLEAN, c \in BOOLEAN}

(* The part of each log that was added after start-up stays within the    *)
(* bounds; PreLoaded entries may have been read from localStorage.        *)
PreLoaded == LogCap
Grown(log) == IF Len(log) >= PreLoaded THEN Len(log) - PreLoaded ELSE Len(log)

Within(s) ==
    /\ Grown(s.cprTimeline) <= MaxTimeline
    /\ Grown(s.cprEvents) <= MaxEvents
    /\ Len(s.cprLog) <= MaxSessions
    /\ s.compressionCount <= MaxCount
    /\ s.cycleCount <= MaxCycles

Do(s, op, ok) == Commit(s) /\ Did(op, ok)
Step(s, op, ok) == Within(s) /\ Do(s, op, ok)

----------------------------------------------------------------------------
(* Actions: one per exported handler, and the metronome's interval        *)
(* callback.                                                              *)

StartCPR ==
    /\ HasFreeHandle(DOMAIN timers)
    /\ Step(startCPR(Cur), "startCPR", TRUE)

StopCPR == Step(stopCPR(Cur), "stopCPR", TRUE)

ToggleMetronome ==
    /\ metronomeInterval # NULL \/ HasFreeHandle(DOMAIN timers)
    /\ Step(toggleMetronome(Cur), "toggleMetronome", TRUE)

UpdateMetronomeRate ==
    \E value \in RateValues :
        Step(updateMetronomeRate(Cur, value), "updateMetronomeRate", TRUE)

PulseDetected == Step(pulseDetected(Cur), "pulseDetected", TRUE)

NoPulseDetected ==
    /\ HasFreeHandle(DOMAIN timers)
    /\ Step(noPulseDetected(Cur), "noPulseDetected", TRUE)

ResetMetronome == Step(resetMetronome(Cur), "resetMetronome", TRUE)

\* playBeep throws when audio is enabled and the host has no AudioContext;
\* the rest of the callback is then skipped
playBeepThrows(audio) == audio.enabled /\ ~audio.capable

tickCallback(s, audio) ==
    IF playBeepThrows(audio) THEN s ELSE updateCompressionCount(s)

Tick ==
    \E h \in DOMAIN timers : \E audio \in AudioEnvs :
        Step(tickCallback(Cur, audio), "tick", ~playBeepThrows(audio))

\* the handlers that read the page, for one state of its fields
LogRhythmChangeWith(sel) ==
    LET s == logRhythmChange(Cur, sel) IN Step(s, "logRhythmChange", s # Cur)

LogShockWith(field) ==
    LET s == logShock(Cur, field) IN Step(s, "logShock", s # Cur)

LogMedicationWith(f) ==
    LET s == logMedication(Cur, f) IN Step(s, "logMedication", s # Cur)

LogInterventionWith(f) ==
    LET s == logIntervention(Cur, f) IN Step(s, "logIntervention", s # Cur)

AddCprEventWith(details) ==
    LET s == addCprEvent(Cur, details) IN Step(s, "addCprEvent", s # Cur)

LogRhythmChange == \E sel \in RhythmSelects : LogRhythmChangeWith(sel)

LogShock == \E field \in ShockFields : LogShockWith(field)

LogMedication == \E f \in MedForms : LogMedicationWith(f)

LogIntervention == \E f \in IntForms : LogInterventionWith(f)

AddCprEvent == \E details \in PromptAnswers : AddCprEventWith(details)

----------------------------------------------------------------------------
(* Initial states *)

EmptyStore == [cprLog |-> Missing, cprEvents |-> Missing, cprTimeline |-> Missing]

\* the module's top-level declarations, then loadFromLocalStorage
loadFromLocalStorage(store) ==
    [cprLog |-> IF store.cprLog # Missing THEN JSONparse(store.cprLog) ELSE <<>>,
     cprEvents |-> IF store.cprEvents # Missing THEN JSONparse(store.cprEvents) ELSE <<>>,
     cprTimeline |-> IF store.cprTimeline # Missing THEN JSONparse(store.cprTimeline) ELSE <<>>]

\* the state right after the module's top-level declarations
Fresh == [cprLog |-> <<>>, cprEvents |-> <<>>, cprTimeline |-> <<>>,
          currentRhythm |-> UNKNOWN,
          metronomeInterval |-> NULL, metronomeRate |-> InitialRate,
          compressionCount |-> 0, cycleCount |-> 0,
          cprStartTime |-> NULL, cprTimerInterval |-> NULL,
          timers |-> << >>, cprTimers |-> {},
          localStorage |-> EmptyStore, cycleLabel |-> <<0, 0>>]

Holds(s, op) ==
    /\ cprLog = s.cprLog
    /\ cprEvents = s.cprEvents
    /\ cprTimeline = s.cprTimeline
    /\ currentRhythm = s.currentRhythm
    /\ metronomeInterval = s.metronomeInterval
    /\ metronomeRate = s.metronomeRate
    /\ compressionCount = s.compressionCount
    /\ cycleCount = s.cycleCount
    /\ cprStartTime = s.cprStartTime
    /\ cprTimerInterval = s.cprTimerInterval
    /\ timers = s.timers
    /\ cprTimers = s.cprTimers
    /\ localStorage = s.localStorage
    /\ cycleLabel = s.cycleLabel
    /\ lastOp = [op |-> op, ok |-> TRUE]
    /\ patients = << >>
    /\ currentPatientId = NULL
    /\ gcsLog = << >>
    /\ dateNow = 1
    /\ patientStore = [currentPatientId |-> Missing, patients |-> Missing]

\* start-up: the declarations, then loadFromLocalStorage
InitFrom(store) ==
    LET loaded == loadFromLocalStorage(store) IN
    Holds([Fresh EXCEPT !.cprLog = loaded.cprLog,
                        !.cprEvents = loaded.cprEvents,
                        !.cprTimeline = loaded.cprTimeline,
                        !.localStorage = store], "init")

Init == InitFrom(EmptyStore)

(* A session that has counted up to just below the cycle target: the    *)
(* state that startCPR and cycleTarget - TickWindow ticks lead to        *)
(* (SpecController reaches it by taking those steps).                    *)
NearTarget ==
    [startMetronome(Fresh) EXCEPT
        !.compressionCount = cycleTarget - TickWindow,
        !.cycleLabel = <<1, cycleTarget - TickWindow>>]

InitNearTarget == Holds(NearTarget, "tick")

InWindow ==
    \/ compressionCount <= TickWindow
    \/ compressionCount >= cycleTarget - TickWindow

Next ==
    \/ StartCPR
    \/ StopCPR
    \/ ToggleMetronome
    \/ UpdateMetronomeRate
    \/ PulseDetected
    \/ NoPulseDetected
    \/ ResetMetronome
    \/ Tick
    \/ LogRhythmChange
    \/ LogShock
    \/ LogMedication
    \/ LogIntervention
    \/ AddCprEvent

Spec == (Init \/ InitNearTarget) /\ [][Next /\ InWindow']_vars

(* The session controller alone: metronome, timers, pulse checks *)
NextController ==
    \/ StartCPR
    \/ StopCPR
    \/ ToggleMetronome
    \/ UpdateMetronomeRate
    \/ PulseDetected
    \/ NoPulseDetected
    \/ ResetMetronome
    \/ Tick

SpecController == Init /\ [][NextController]_vars

(* The acceptance scenario: start, ticks up to the pulse check, "no      *)
(* pulse", SecondCycleTicks more ticks, "pulse detected".                *)
SecondCycleTicks == 60

ScenStart ==
    /\ lastOp.op = "init"
    /\ Do(startCPR(Cur), "startCPR", TRUE)

ScenTick ==
    /\ metronomeInterval # NULL
    /\ cycleCount = 0 \/ compressionCount < SecondCycleTicks
    /\ \E audio \in AudioEnvs :
          Do(tickCallback(Cur, audio), "tick", ~playBeepThrows(audio))

ScenNoPulse ==
    /\ cprStartTime # NULL /\ metronomeInterval = NULL
    /\ cycleCount = 0 /\ compressionCount = cycleTarget
    /\ Do(noPulseDetected(Cur), "noPulseDetected", TRUE)

ScenPulse ==
    /\ cprStartTime # NULL
    /\ cycleCount = 1 /\ compressionCount = SecondCycleTicks
    /\ Do(pulseDetected(Cur), "pulseDetected", TRUE)

NextScenario == ScenStart \/ ScenTick \/ ScenNoPulse \/ ScenPulse

SpecScenario == Init /\ [][NextScenario]_vars

ScenarioDone == lastOp.op = "pulseDetected"

(* Logs that already hold PreLoaded entries when the page starts *)
OldNote == Entry("note", <<"rosc">>)
PreloadedLog == [i \in 1..PreLoaded |-> OldNote]
PreloadedStore == [cprLog |-> Missing,
                   cprEvents |-> JSONstringify(PreloadedLog),
                   cprTimeline |-> JSONstringify(PreloadedLog)]

NextLogging ==
    \/ LogRhythmChange
    \/ LogShock
    \/ LogMedication
    \/ LogIntervention
    \/ AddCprEvent
    \/ StartCPR
    \/ PulseDetected
    \/ NoPulseDetected

SpecPreloaded == InitFrom(PreloadedStore) /\ [][NextLogging]_vars

(* The handlers that write to the logs, from an empty store *)
SpecLogging == Init /\ [][NextLogging]_vars

(* Sessions with rhythm changes: events and sessions follow each other,  *)
(* each session is ended by "pulse detected".                            *)
MaxRhythmEvents == 2
MaxRhythmSessions == 2

SessRhythm ==
    /\ Len(cprEvents) < MaxRhythmEvents
    /\ \E sel \in RhythmSelects :
          LET s == logRhythmChange(Cur, sel) IN Do(s, "logRhythmChange", s # Cur)

SessShock ==
    /\ Len(cprEvents) < MaxRhythmEvents
    /\ LET s == logShock(Cur, Field(<<"2", "0", "0">>)) IN Do(s, "logShock", s # Cur)

SessStart ==
    /\ cprStartTime = NULL /\ Len(cprLog) < MaxRhythmSessions
    /\ Do(startCPR(Cur), "startCPR", TRUE)

SessRate ==
    \E value \in RateValues :
        Do(updateMetronomeRate(Cur, value), "updateMetronomeRate", TRUE)

SessPulse ==
    /\ cprStartTime # NULL
    /\ Do(pulseDetected(Cur), "pulseDetected", TRUE)

NextSessions == SessRhythm \/ SessShock \/ SessStart \/ SessRate \/ SessPulse

SpecSessions == Init /\ [][NextSessions]_vars

----------------------------------------------------------------------------
(* Patients (src/patient.js) and the GCS log (src/gcs.js).                *)
(* The patients object is a sequence of [id, gcs] in key order: a key     *)
(* that is assigned again keeps its place, a new key goes to the end.     *)
(* Of a patient record only the gcs list is kept; info, vitals and notes  *)
(* are carried along by the same assignments and read by no handler here. *)

\* calls that read Date.now() (ids, timestamps) the model follows
MaxClock == 5

PCur == [patients |-> patients, currentPatientId |-> currentPatientId,
         gcsLog |-> gcsLog, dateNow |-> dateNow, patientStore |-> patientStore]

PCommit(p) ==
    /\ patients' = p.patients
    /\ currentPatientId' = p.currentPatientId
    /\ gcsLog' = p.gcsLog
    /\ dateNow' = p.dateNow
    /\ patientStore' = p.patientStore
    /\ UNCHANGED cprVars

Keys(ps) == [i \in 1..Len(ps) |-> ps[i].id]
KeySet(ps) == {ps[i].id : i \in 1..Len(ps)}
HasKey(ps, id) == id \in KeySet(ps)
Lookup(ps, id) == ps[CHOOSE i \in 1..Len(ps) : ps[i].id = id]

\* patients[id] = record
Assign(ps, id, gcs) ==
    IF HasKey(ps, id)
    THEN [i \in 1..Len(ps) |-> IF ps[i].id = id THEN [id |-> id, gcs |-> gcs] ELSE ps[i]]
    ELSE Append(ps, [id |-> id, gcs |-> gcs])

\* delete patients[id]
RECURSIVE Delete(_, _)
Delete(ps, id) ==
    IF ps = << >> THEN << >>
    ELSE IF Head(ps).id = id THEN Delete(Tail(ps), id)
    ELSE <<Head(ps)>> \o Delete(Tail(ps), id)

savePatients(p) ==
    [p EXCEPT !.patientStore = [currentPatientId |-> JSONstringify(p.currentPatientId),
                                patients |-> JSONstringify(p.patients)]]

\* "Save current patient if exists": the record is written again, with the
\* gcs list it had, or an empty one when the key is gone
saveCurrentPatient(p) ==
    IF p.currentPatientId # NULL
    THEN [p EXCEPT !.patients =
            Assign(@, p.currentPatientId,
                   IF HasKey(p.patients, p.currentPatientId)
                   THEN Lookup(p.patients, p.currentPatientId).gcs
                   ELSE << >>)]
    ELSE p

addPatient(p) ==
    LET p1 == saveCurrentPatient(p)
        patientId == p1.dateNow
    IN savePatients([p1 EXCEPT !.patients = Assign(@, patientId, << >>),
                               !.currentPatientId = patientId,
                               !.dateNow = @ + 1])

switchPatient(p, patientId) ==
    IF ~HasKey(p.patients, patientId) THEN p
    ELSE savePatients([saveCurrentPatient(p) EXCEPT !.currentPatientId = patientId])

removePatient(p, patientId, confirmed) ==
    IF ~confirmed THEN p
    ELSE LET p1 == [p EXCEPT !.patients = Delete(@, patientId)]
             remainingIds == Keys(p1.patients)
             p2 == IF p1.currentPatientId = patientId
                   THEN IF Len(remainingIds) > 0
                        THEN switchPatient(p1, remainingIds[1])
                        ELSE addPatient(p1)
                   ELSE p1
         IN savePatients(p2)

persistGcs(p) ==
    IF p.currentPatientId # NULL
    THEN savePatients([p EXCEPT !.patients = Assign(@, p.currentPatientId, p.gcsLog)])
    ELSE p

\* the checked radio button of a group, if any
Checked(group) == IF group.present THEN parseInt(group.value) ELSE 0

cap(log) == IF Len(log) > LogCap THEN SubSeq(log, 1, LogCap) ELSE log

\* The item carries, besides its timestamp and scores, the patient that was
\* current when it was submitted.
submitGCS(p, form) ==
    LET eye == Checked(form.eye)
        verbal == Checked(form.verbal)
        motor == Checked(form.motor)
        item == [time |-> p.dateNow, eye |-> eye, verbal |-> verbal,
                 motor |-> motor, total |-> eye + verbal + motor,
                 patient |-> p.currentPatientId]
    IN persistGcs([p EXCEPT !.gcsLog = cap(unshift(@, item)), !.dateNow = @ + 1])

GcsForms == {[eye |-> Absent, verbal |-> Absent, motor |-> Absent],
             [eye |-> Field(<<"4">>), verbal |-> Field(<<"5">>), motor |-> Field(<<"6">>)]}
PatientIds == 1..MaxClock

AddPatient ==
    /\ dateNow < MaxClock
    /\ PCommit(addPatient(PCur)) /\ Did("addPatient", TRUE)

SwitchPatientTo(patientId) ==
    LET p == switchPatient(PCur, patientId)
    IN PCommit(p) /\ Did("switchPatient", p # PCur)

SwitchPatient == \E patientId \in PatientIds : SwitchPatientTo(patientId)

RemovePatientWith(patientId, confirmed) ==
    /\ dateNow < MaxClock
    /\ PCommit(removePatient(PCur, patientId, confirmed))
    /\ Did("removePatient", confirmed)

RemovePatient ==
    \E patientId \in PatientIds : \E confirmed \in BOOLEAN :
        RemovePatientWith(patientId, confirmed)

SubmitGCS ==
    /\ dateNow < MaxClock
    /\ \E form \in GcsForms : PCommit(submitGCS(PCur, form)) /\ Did("submitGCS", TRUE)

NextPatients == AddPatient \/ SwitchPatient \/ RemovePatient \/ SubmitGCS

SpecPatients == Init /\ [][NextPatients]_vars

----------------------------------------------------------------------------
(* Properties *)

SessionActive == cprStartTime # NULL
Idle ==
    /\ metronomeInterval = NULL /\ cprTimerInterval = NULL /\ cprStartTime = NULL
    /\ compressionCount = 0 /\ cycleCount = 0

TypesOf(log) == [i \in 1..Len(log) |-> log[i].type]

\* C1: stopCPR in an active session appends one CprSession to cprLog and a
\* session-end entry to cprTimeline and leaves the controller idle.
C1_StopEndsSession ==
    [][(lastOp'.op = "stopCPR" /\ SessionActive) =>
         /\ Len(cprLog') = Len(cprLog) + 1
         /\ Len(cprTimeline') > Len(cprTimeline)
         /\ cprTimeline'[1].type = "session-end"
         /\ Idle']_vars

\* C2: after start, 120 ticks, "no pulse", 60 ticks, "pulse detected" from
\* empty logs, cprLog has exactly one entry and its cycles field is 2.
C2_ScenarioCycles ==
    ScenarioDone => (Len(cprLog) = 1 /\ cprLog[1].cycles = 2)

\* C3: startCPR while the metronome is running creates no timer, adds no
\* timeline entry and changes no counter and no log.
C3_StartWhileRunningNoOp ==
    [][(lastOp'.op = "startCPR" /\ metronomeInterval # NULL) =>
         UNCHANGED <<timers, cprTimers, metronomeInterval, cprTimerInterval,
                     cprTimeline, cprEvents, cprLog, compressionCount,
                     cycleCount, cprStartTime, localStorage>>]_vars

\* C4: every live compression-interval timer is the one metronomeInterval
\* refers to, so at most one is live.
C4_OneMetronomeTimer ==
    /\ DOMAIN timers \subseteq {metronomeInterval}
    /\ Cardinality(DOMAIN timers) <= 1

\* C5: the tick that brings compressionCount to 120 clears the metronome
\* timer and keeps the count at 120, and while the metronome is stopped at
\* the pulse check the count does not increase.
C5_GateStopsCounting ==
    [][/\ (lastOp'.op = "tick" /\ lastOp'.ok /\ compressionCount = cycleTarget - 1) =>
            (compressionCount' = cycleTarget /\ metronomeInterval' = NULL
             /\ DOMAIN timers' = {})
       /\ (metronomeInterval = NULL /\ compressionCount >= cycleTarget) =>
            compressionCount' <= compressionCount]_vars

\* C6: cprEvents and cprTimeline never hold more than 200 entries.
C6_LogsCapped ==
    Len(cprEvents) <= LogCap /\ Len(cprTimeline) <= LogCap

\* C7: logShock with an energy that is empty, 0 or negative changes neither
\* cprEvents nor cprTimeline and persists nothing.
EmptyZeroNegative ==
    {Field(<<>>), Field(<<" ">>), Field(<<"0">>), Field(<<"-", "5">>)}

C7_BadShockRejected ==
    [][(lastOp'.op = "logShock" /\ \E field \in EmptyZeroNegative : LogShockWith(field)) =>
         UNCHANGED <<cprEvents, cprTimeline, cprLog, localStorage>>]_vars

C7_Witness ==
    /\ lastOp.op = "logShock" /\ ~lastOp.ok
    /\ cprTimeline # <<>>

\* C8: logRhythmChange with no rhythm, logMedication with no medication or
\* with "other" and no name, logIntervention with no intervention or with
\* "other-int" and no name leave the logs, currentRhythm and the store alone.
Blank(field) == ~field.present \/ field.value \in {<<>>, <<" ">>}

NoRhythm == {sel \in RhythmSelects : ~sel.present \/ sel.value = <<>>}
NoMedication ==
    {f \in MedForms : \/ Blank(f.select)
                      \/ f.select.value = <<"other">> /\ Blank(f.other)}
NoIntervention ==
    {f \in IntForms : \/ Blank(f.select)
                      \/ f.select.value = <<"other-int">> /\ Blank(f.other)}

RejectedCall ==
    \/ lastOp'.op = "logRhythmChange" /\ \E sel \in NoRhythm : LogRhythmChangeWith(sel)
    \/ lastOp'.op = "logMedication" /\ \E f \in NoMedication : LogMedicationWith(f)
    \/ lastOp'.op = "logIntervention" /\ \E f \in NoIntervention : LogInterventionWith(f)

C8_RejectedInputNoChange ==
    [][RejectedCall =>
         UNCHANGED <<cprEvents, cprTimeline, cprLog, currentRhythm, localStorage>>]_vars

C8_Witness ==
    /\ lastOp.op = "logMedication" /\ ~lastOp.ok
    /\ cprEvents # <<>> /\ currentRhythm # UNKNOWN

\* C9: cprLog changes only in a pulseDetected call made during a session,
\* which adds one entry.
C9_OnlyPulseDetectedLogs ==
    [][cprLog' # cprLog =>
         /\ lastOp'.op = "pulseDetected" /\ SessionActive
         /\ Len(cprLog') = Len(cprLog) + 1]_vars

C9_Witness ==
    /\ lastOp.op = "stopCPR" /\ SessionActive /\ metronomeInterval = NULL
    /\ cprLog = <<>> /\ compressionCount > 0

\* C10: pulseDetected in an active session adds one CprSession, one
\* pulse-check and one session-end entry and resets the controller.
C10_PulseDetectedEndsSession ==
    [][(lastOp'.op = "pulseDetected" /\ SessionActive) =>
         /\ Len(cprLog') = Len(cprLog) + 1
         /\ SubSeq(cprLog', 2, Len(cprLog')) = cprLog
         /\ Len(cprTimeline') = Len(cprTimeline) + 2
         /\ SubSeq(cprTimeline', 3, Len(cprTimeline')) = cprTimeline
         /\ cprTimeline'[1].type = "session-end"
         /\ cprTimeline'[2].type = "pulse-check"
         /\ Idle']_vars

C10_Witness ==
    /\ lastOp.op = "pulseDetected" /\ Len(cprLog) = 1
    /\ TypesOf(cprTimeline) = <<"session-end", "pulse-check", "session-start">>
    /\ Idle

\* C11: noPulseDetected at the pulse check (session open, metronome stopped
\* at the cycle target) puts exactly one pulse-check entry and no
\* session-start at the head of cprTimeline, sets compressionCount to 0,
\* adds 1 to cycleCount, starts a metronome timer, and leaves cprStartTime,
\* the elapsed timer and cprLog as they were.
AwaitingPulseCheck ==
    /\ cprStartTime # NULL /\ metronomeInterval = NULL
    /\ compressionCount >= cycleTarget

C11_NoPulseContinuesSession ==
    [][(lastOp'.op = "noPulseDetected" /\ AwaitingPulseCheck) =>
         /\ Len(cprTimeline') = Len(cprTimeline) + 1
         /\ SubSeq(cprTimeline', 2, Len(cprTimeline')) = cprTimeline
         /\ cprTimeline'[1].type = "pulse-check"
         /\ compressionCount' = 0
         /\ cycleCount' = cycleCount + 1
         /\ metronomeInterval' # NULL
         /\ metronomeInterval' \in DOMAIN timers'
         /\ UNCHANGED <<cprStartTime, cprTimerInterval, cprTimers, cprLog>>]_vars

C11_Witness ==
    /\ lastOp.op = "noPulseDetected" /\ SessionActive
    /\ compressionCount = 0 /\ cycleCount = 1 /\ cycleLabel = <<1, 0>>
    /\ DOMAIN timers = {metronomeInterval} /\ cprTimers = {cprTimerInterval}
    /\ TypesOf(cprTimeline) = <<"pulse-check", "session-start">>

\* C12: updateMetronomeRate(bpm) while the metronome runs makes the
\* metronome timer's period 60000 / bpm ms (600 for 100, 500 for 120), leaves
\* compressionCount, cycleCount, cprStartTime, the elapsed timer and the
\* three logs unchanged, and exactly one metronome timer is live afterwards.
PeriodOf == [v \in RateValues |-> IF v = <<"1", "2", "0">> THEN 500 ELSE 600]

C12_RateChangeWhileRunning ==
    [][\A value \in RateValues :
         (/\ lastOp'.op = "updateMetronomeRate"
          /\ metronomeInterval # NULL
          /\ Step(updateMetronomeRate(Cur, value), "updateMetronomeRate", TRUE)) =>
            /\ metronomeInterval' \in DOMAIN timers'
            /\ timers'[metronomeInterval'] = PeriodOf[value]
            /\ Cardinality(DOMAIN timers') = 1
            /\ UNCHANGED <<compressionCount, cycleCount, cprStartTime,
                           cprTimerInterval, cprTimers,
                           cprLog, cprEvents, cprTimeline>>]_vars

\* C13: after every counted tick the label shows
\* ceil(compressionCount / 120) and compressionCount mod 120 with 120 in
\* place of 0: the progress is in 1..120 and is 120 right after the 120th
\* compression.
C13_CycleLabel ==
    [][(lastOp'.op = "tick" /\ lastOp'.ok) =>
         LET n == compressionCount'
             q == CHOOSE k \in 0..n : (k - 1) * 120 < n /\ n <= k * 120
             r == CHOOSE k \in 1..120 : (n - k) % 120 = 0
         IN /\ cycleLabel' = <<q, r>>
            /\ cycleLabel'[2] \in 1..120
            /\ (n = 120 => cycleLabel'[2] = 120)]_vars

C13_Witness ==
    /\ lastOp.op = "tick" /\ lastOp.ok
    /\ compressionCount = 120 /\ cycleLabel = <<1, 120>>
    /\ metronomeInterval = NULL

\* C14: startCPR from idle with empty logs followed at once by stopCPR (no
\* tick in between) leaves cprLog with exactly one entry, whose cycles
\* field is 1.
C14_StartThenStopLogsOneCycle ==
    [][(/\ lastOp.op = "startCPR" /\ lastOp'.op = "stopCPR"
        /\ compressionCount = 0 /\ cycleCount = 0
        /\ cprLog = <<>> /\ cprEvents = <<>>
        /\ TypesOf(cprTimeline) = <<"session-start">>) =>
           (Len(cprLog') = 1 /\ cprLog'[1].cycles = 1)]_vars

\* C15: after startCPR, 120 ticks, noPulseDetected, 60 ticks, pulseDetected
\* from an empty timeline, cprTimeline read from its head is session-end,
\* pulse-check (pulse detected), pulse-check (no pulse), session-start, and
\* nothing else.
C15_ScenarioTimeline ==
    ScenarioDone =>
        cprTimeline =
            << Entry("session-end", <<"CPR stopped - Pulse detected">>),
               Entry("pulse-check", <<"Pulse detected - CPR stopped">>),
               Entry("pulse-check", <<"No pulse detected - CPR continued">>),
               Entry("session-start", <<"CPR started">>) >>

C15_Witness ==
    /\ ScenarioDone /\ Idle
    /\ Len(cprTimeline) = 4 /\ Len(cprLog) = 1
    /\ localStorage.cprTimeline = JSONstringify(cprTimeline)

\* C16: the three logs are newest-first: in every step each log is either
\* unchanged or has new entries in front of index 0 of the old log, whose
\* entries keep their order and content.
GrewAtHead(new, old) ==
    /\ Len(new) >= Len(old)
    /\ SubSeq(new, Len(new) - Len(old) + 1, Len(new)) = old

EventTypeOf ==
    [op \in {"logRhythmChange", "logShock", "logMedication", "logIntervention"} |->
        CASE op = "logRhythmChange" -> "rhythm"
          [] op = "logShock" -> "shock"
          [] op = "logMedication" -> "medication"
          [] op = "logIntervention" -> "intervention"]

C17_AcceptedEventLogsOnce ==
    [][(lastOp'.op \in DOMAIN EventTypeOf /\ lastOp'.ok) =>
         /\ Len(cprEvents') = Len(cprEvents) + 1
         /\ Tail(cprEvents') = cprEvents
         /\ Len(cprTimeline') = Len(cprTimeline) + 1
         /\ Tail(cprTimeline') = cprTimeline
         /\ cprEvents'[1].type = EventTypeOf[lastOp'.op]
         /\ cprTimeline'[1].type = cprEvents'[1].type
         /\ UNCHANGED <<cprLog, compressionCount, cycleCount, cprStartTime,
                        timers, cprTimers, metronomeInterval,
                        cprTimerInterval>>]_vars

C17_Witness ==
    /\ lastOp.op = "logShock" /\ lastOp.ok
    /\ SessionActive /\ metronomeInterval # NULL
    /\ cprEvents[1].type = "shock" /\ cprTimeline[1].type = "shock"
    /\ Len(cprTimeline) >= 2

\* C18: after any step that changed cprLog, cprEvents or cprTimeline the
\* three keys in localStorage hold the text of the in-memory logs; and at
\* all times loadFromLocalStorage at the next start-up (a missing key giving
\* an empty log) yields the three in-memory logs.
Persisted ==
    [cprLog |-> JSONstringify(cprLog),
     cprEvents |-> JSONstringify(cprEvents),
     cprTimeline |-> JSONstringify(cprTimeline)]

Reloaded == loadFromLocalStorage(localStorage)

C18_PersistedEqualsMemory ==
    /\ [](/\ Reloaded.cprLog = cprLog
          /\ Reloaded.cprEvents = cprEvents
          /\ Reloaded.cprTimeline = cprTimeline)
    /\ [][<<cprLog, cprEvents, cprTimeline>>' # <<cprLog, cprEvents, cprTimeline>> =>
            localStorage' = Persisted']_vars

C18_Witness ==
    /\ cprLog # <<>> /\ cprEvents # <<>> /\ Len(cprTimeline) = 4
    /\ localStorage = Persisted
    /\ Reloaded.cprTimeline = cprTimeline

\* C19: startCPR with no session open puts exactly one session-start entry
\* at the head of cprTimeline and stores the timeline at once, so that after
\* startCPR and then stopCPR the stored cprTimeline is non-empty; a metronome
\* restart inside an open session (toggle, rate change, noPulseDetected,
\* startCPR again) adds no session-start entry.
SessionStarts(log) == Cardinality({i \in 1..Len(log) : log[i].type = "session-start"})

Restarts == {"toggleMetronome", "updateMetronomeRate", "noPulseDetected", "startCPR"}

C19_OneSessionStart ==
    [][/\ (lastOp'.op = "startCPR" /\ ~SessionActive) =>
            /\ Len(cprTimeline') = Len(cprTimeline) + 1
            /\ Tail(cprTimeline') = cprTimeline
            /\ cprTimeline'[1].type = "session-start"
            /\ localStorage'.cprTimeline = JSONstringify(cprTimeline')
       /\ (lastOp.op = "startCPR" /\ lastOp'.op = "stopCPR") =>
            /\ localStorage'.cprTimeline # Missing
            /\ Len(JSONparse(localStorage'.cprTimeline)) > 0
       /\ (lastOp'.op \in Restarts /\ SessionActive) =>
            SessionStarts(cprTimeline') = SessionStarts(cprTimeline)]_vars

C19_Witness ==
    /\ lastOp.op = "stopCPR" /\ SessionActive /\ metronomeInterval = NULL
    /\ cycleCount = 1
    /\ localStorage.cprTimeline # Missing
    /\ SessionStarts(JSONparse(localStorage.cprTimeline)) = 1
    /\ SessionStarts(cprTimeline) = 1

\* C20: every tick of the metronome adds exactly 1 to compressionCount,
\* whatever the audio-enabled toggle and the host's audio capability are, and
\* the tick that reaches 120 stops the metronome.
C20_TickCountsWithoutAudio ==
    [][lastOp'.op = "tick" =>
         /\ compressionCount' = compressionCount + 1
         /\ (compressionCount' = cycleTarget => metronomeInterval' = NULL)]_vars

\* C21: once a session has ended (pulseDetected or resetMetronome returned,
\* so no session is open) no metronome timer is live, so no tick can run,
\* and compressionCount is 0 until the next start.
C21_NoTickAfterSessionEnd ==
    ~SessionActive => (DOMAIN timers = {} /\ compressionCount = 0)

\* C22: at most one elapsed-time timer is live, and one is live exactly when
\* a session is open: cprTimerInterval is set if and only if cprStartTime is.
C22_OneElapsedTimer ==
    /\ Cardinality(cprTimers) <= 1
    /\ (cprTimerInterval # NULL) <=> (cprStartTime # NULL)
    /\ cprTimers = IF cprStartTime # NULL THEN {cprTimerInterval} ELSE {}

C22_Witness ==
    /\ SessionActive /\ cprTimers = {cprTimerInterval}
    /\ cprLog # <<>> /\ compressionCount > 0 /\ metronomeInterval # NULL

\* C23: toggleMetronome inside a session (pause, resume) flips the metronome
\* between running and stopped, leaves compressionCount, cycleCount and
\* cprStartTime unchanged, keeps the elapsed timer live and adds nothing to
\* the three logs.
C23_PauseResumeKeepsSession ==
    [][(lastOp'.op = "toggleMetronome" /\ SessionActive) =>
         /\ (metronomeInterval' # NULL) <=> (metronomeInterval = NULL)
         /\ cprTimerInterval' \in cprTimers'
         /\ UNCHANGED <<compressionCount, cycleCount, cprStartTime,
                        cprTimerInterval, cprTimers,
                        cprLog, cprEvents, cprTimeline>>]_vars

C23_Witness ==
    /\ lastOp.op = "toggleMetronome" /\ SessionActive
    /\ metronomeInterval # NULL /\ DOMAIN timers = {metronomeInterval}
    /\ compressionCount > 0 /\ cprTimerInterval \in cprTimers

\* C24: the CprSession that pulseDetected adds carries the rhythm code of
\* the most recent accepted logRhythmChange ("unknown" if there was none) and
\* the metronomeRate in force when the session ended.
RhythmEvents(events) == {i \in 1..Len(events) : events[i].type = "rhythm"}

LastRhythm(events) ==
    IF RhythmEvents(events) = {} THEN <<"unknown">>
    ELSE events[CHOOSE i \in RhythmEvents(events) :
                   \A j \in RhythmEvents(events) : i <= j].details

SessionEnds(log) == Cardinality({i \in 1..Len(log) : log[i].type = "session-end"})

IsBoundary(type) == type \in {"session-start", "session-end"}

Boundaries(log) == SelectSeq(TypesOf(log), IsBoundary)

C26_StartsAndEndsAlternate ==
    LET b == Boundaries(cprTimeline)
        d == SessionStarts(cprTimeline) - SessionEnds(cprTimeline)
    IN /\ d \in {0, 1}
       /\ (d = 1) <=> SessionActive
       /\ \A i \in 1..(Len(b) - 1) : b[i] # b[i + 1]
       /\ b # <<>> => b[Len(b)] = "session-start"

\* C27: compressionCount never exceeds cycleTarget.
C27_CountWithinTarget == compressionCount <= cycleTarget

\* C28: every pulse-check entry of cprTimeline is newer than a session-start
\* entry with no session-end between the two; so a pulse check made with no
\* session open leaves no pulse-check entry.
InsideSession(log, i) ==
    \E j \in (i + 1)..Len(log) :
        /\ log[j].type = "session-start"
        /\ \A k \in (i + 1)..(j - 1) : log[k].type # "session-end"

C28_PulseChecksInsideSession ==
    \A i \in 1..Len(cprTimeline) :
        cprTimeline[i].type = "pulse-check" => InsideSession(cprTimeline, i)

\* C29: every shock entry of cprEvents records an energy that is a number
\* greater than 0.
EnergyOf(entry) == SubSeq(entry.details, 1, Len(entry.details) - 1)

C29_ShockEnergyPositive ==
    \A i \in 1..Len(cprEvents) :
        cprEvents[i].type = "shock" =>
            /\ AllDigits(EnergyOf(cprEvents[i]))
            /\ DigitsVal(EnergyOf(cprEvents[i]), 0) > 0

\* C25: after a confirmed removePatient(id) of an existing patient, id is no
\* longer a key of patients, also when id was the current patient, and
\* currentPatientId names a patient that exists.
C25_RemovedPatientIsGone ==
    [][\A id \in PatientIds :
         (/\ lastOp'.op = "removePatient" /\ lastOp'.ok
          /\ HasKey(patients, id)
          /\ RemovePatientWith(id, TRUE)) =>
            /\ ~HasKey(patients', id)
            /\ HasKey(patients', currentPatientId')]_vars

\* C30: a GCS entry submitted while patient A was current appears in the
\* gcs list of no other patient.
C30_GcsIsolated ==
    \A i \in 1..Len(patients) :
        \A k \in 1..Len(patients[i].gcs) :
            patients[i].gcs[k].patient \in {NULL, patients[i].id}

====
